---- MODULE Spec2Model ----
(***************************************************************************)
(* Model of the Discord provisioning CLI (package discord_cli).            *)
(*                                                                         *)
(*   SpecRetry : utils.with_rate_limit_retry run on its own, one action    *)
(*               per invocation of the wrapped operation.                  *)
(*   Spec      : one session, DiscordProvisioner.execute on the main       *)
(*               coroutine and _ProvisioningClient._execute_provisioning   *)
(*               as the background task that setup_hook creates.           *)
(***************************************************************************)
EXTENDS Integers, Sequences, FiniteSets, TLC

(***************************************************************************)
(* Bounds of the model and constants of the program.                       *)
(***************************************************************************)
\* largest `retries` argument SpecRetry tries
MaxRetries == 5
\* largest `base_delay` argument SpecRetry tries
MaxBaseDelay == 2
\* largest `backoff_factor` argument SpecRetry tries
MaxFactor == 3
\* utils.py:63, the `retries` default every caller of the program uses
DefaultRetries == 5

(***************************************************************************)
(* Outcomes of one remote operation: a result value, a discord             *)
(* HTTPException carrying a status (Forbidden is the 403 subclass), or an  *)
(* error that is no HTTPException.                                         *)
(***************************************************************************)
OpResults == {"r1", "r2"}
HTTPErrors == {"HTTP429", "HTTP403", "HTTP500"}
OtherErrors == {"OtherError", "SessionClosed"}
OpOutcomes == OpResults \cup HTTPErrors \cup OtherErrors

IsHTTPException(e) == e \in HTTPErrors

Status(e) ==
  CASE e = "HTTP429" -> 429
    [] e = "HTTP401" -> 401
    [] e = "HTTP403" -> 403
    [] e = "HTTP500" -> 500
    [] OTHER -> 0

(***************************************************************************)
(* with_rate_limit_retry: what the loop body does with the outcome of the  *)
(* attempt numbered `attempt` (0-based) out of `retries`.                  *)
(*   "return" : line 70, the operation returned                            *)
(*   "sleep"  : lines 72-75, 429 and attempt < retries - 1                 *)
(*   "raise"  : line 76, the bare raise of the HTTPException, or an        *)
(*              exception the except clause does not catch                 *)
(***************************************************************************)
RetryDecisionSleepsOnLast(out, attempt, retries) ==
  IF ~(out \in HTTPErrors \cup OtherErrors) THEN "return"
  ELSE IF IsHTTPException(out) /\ Status(out) = 429 /\ attempt < retries
       THEN "sleep"
       ELSE "raise"

RetryDecisionAnyHTTP(out, attempt, retries) ==
  IF ~(out \in HTTPErrors \cup OtherErrors) THEN "return"
  ELSE IF IsHTTPException(out) /\ attempt < retries - 1
       THEN "sleep"
       ELSE "raise"

RetryDecision(out, attempt, retries) ==
  IF ~(out \in HTTPErrors \cup OtherErrors) THEN "return"
  ELSE IF IsHTTPException(out) /\ Status(out) = 429 /\ attempt < retries - 1
       THEN "sleep"
       ELSE "raise"

\* line 74: delay *= backoff_factor
NextDelay(delay, factor) == delay * factor

VARIABLES
  rp,         \* arguments of the call: [retries, base_delay, backoff_factor]
  r_attempt,  \* the loop variable `attempt`
  r_delay,    \* the local `delay`
  r_calls,    \* how many times operation() was invoked
  r_sleeps,   \* the delays passed to asyncio.sleep, in order
  r_outs,     \* the outcomes of the invocations, in order
  r_state,    \* "running", "returned" or "raised"
  r_result    \* the value returned or the error raised ("none" while running)

rvars == <<rp, r_attempt, r_delay, r_calls, r_sleeps, r_outs, r_state, r_result>>

RetryParams ==
  [retries : 1..MaxRetries, base_delay : 1..MaxBaseDelay, backoff_factor : 1..MaxFactor]

\* lines 60-67: the call, with delay = base_delay
RetryInit ==
  /\ rp \in RetryParams
  /\ r_attempt = 0
  /\ r_delay = rp.base_delay
  /\ r_calls = 0
  /\ r_sleeps = << >>
  /\ r_outs = << >>
  /\ r_state = "running"
  /\ r_result = "none"

\* lines 68-77: one pass of the for loop, or its exhaustion (line 77)
RetryAttempt ==
  /\ r_state = "running"
  /\ IF r_attempt >= rp.retries
     THEN /\ r_state' = "raised"
          /\ r_result' = "RateLimitError"
          /\ UNCHANGED <<rp, r_attempt, r_delay, r_calls, r_sleeps, r_outs>>
     ELSE \E out \in OpOutcomes :
            LET d == RetryDecision(out, r_attempt, rp.retries) IN
            /\ r_calls' = r_calls + 1
            /\ r_outs' = Append(r_outs, out)
            /\ r_attempt' = IF d = "sleep" THEN r_attempt + 1 ELSE r_attempt
            /\ r_sleeps' = IF d = "sleep" THEN Append(r_sleeps, r_delay) ELSE r_sleeps
            /\ r_delay' = IF d = "sleep" THEN NextDelay(r_delay, rp.backoff_factor)
                                         ELSE r_delay
            /\ r_state' = CASE d = "return" -> "returned"
                            [] d = "raise" -> "raised"
                            [] OTHER -> "running"
            /\ r_result' = IF d = "sleep" THEN "none" ELSE out
            /\ UNCHANGED rp

(***************************************************************************)
(* The session: DiscordProvisioner.execute (main coroutine) and the        *)
(* provisioning task of _ProvisioningClient.                               *)
(***************************************************************************)
\* every sequence over S of length at most n
Seqs(S, n) == UNION {[1..k -> S] : k \in 0..n}

\* largest number of server requests of a session
MaxServers == 2
\* largest number of text channels of a fetched guild
MaxChannels == 2
\* the counters of remote calls saturate at this value
CountCap == 2

VARIABLES
  cfg,          \* SessionConfig: [nservers, invitation, grant_admin, webhook]
  token,        \* SessionConfig.token, a sequence of characters
  e_pc,         \* where DiscordProvisioner.execute is
  e_raise,      \* the exception travelling through execute's finally blocks
  e_out,        \* how execute ended: "none", "returned" or "raised"
  e_err,        \* the exception execute raised
  t_pc,         \* where _execute_provisioning is ("none": no task created)
  cur,          \* index of the ServerRequest the for loop is at
  attempt,      \* `attempt` of the with_rate_limit_retry call in progress
  inner,        \* `attempt` of the nested with_rate_limit_retry (fetch_user)
  member,       \* the member _grant_admin_to_member is called with: the
                \* guild it belongs to and its id (NoMember: none)
  data,         \* the `data` local of send_friend_request._operation: what
                \* the response body holds ("none": no response at hand)
  results,      \* _ProvisioningClient._results
  exception,    \* _ProvisioningClient._exception
  closed,       \* the discord client has been closed
  ready,        \* the gateway has sent READY
  wh,           \* WebhookNotifier._session: "none", "open" or "closed"
  inv,          \* InvitationConfig: [user_id, username, discriminator]
  admin_roles,  \* InvitationManager._admin_roles (its keys)
  channel,      \* the text_channel local of _provision_server
  guild,        \* the guild local of _provision_server, as fetched: whether
                \* it has a system channel and, per text channel in order,
                \* whether the permissions allow creating an invite
  invited,      \* servers whose invite exists on the remote side
  members,      \* servers the target user is a member of
  subs,         \* servers with a pending wait_for("member_join")
  log,          \* remote calls in the order each was first issued
  probe,        \* the outcome _validate_token_with_rest is handling
  logins,       \* the credentials client.login has been called with
  login_out,    \* how client.login ended ("none": not called)
  calls         \* per counted remote call, within the with_rate_limit_retry
                \* call last entered: invocations, successes and 429
                \* responses, saturating

svars == <<cfg, token, e_pc, e_raise, e_out, e_err, t_pc, cur, attempt, inner,
           data, member, results, exception, closed, ready, wh, inv, admin_roles, channel,
           guild, invited, members, subs, log, probe, logins, login_out,
           calls>>

\* a call of one of the pure functions of the input stage, outside a session
VARIABLES
  fn,     \* the function called ("none": no call)
  arg,    \* its argument
  ret     \* what the successive applications returned or raised, in order

pvars == <<fn, arg, ret>>

\* what no step of a session changes
othervars == <<rvars, pvars>>

vars == <<rvars, pvars, svars>>

(***************************************************************************)
(* DiscordProvisioner._normalize_token, on sequences of characters.        *)
(* "SP", "TAB", "NL", "CR" are the whitespace str.strip() removes, "SQ"    *)
(* and "DQ" the quote characters, "ZW" the zero-width space U+200B.        *)
(***************************************************************************)
Whitespace == {"SP", "TAB", "NL", "CR"}
QuoteChars == {"SQ", "DQ"}

RECURSIVE LStripSet(_, _)
LStripSet(s, S) ==
  IF s # << >> /\ Head(s) \in S THEN LStripSet(Tail(s), S) ELSE s

RECURSIVE RStripSet(_, _)
RStripSet(s, S) ==
  IF s # << >> /\ s[Len(s)] \in S THEN RStripSet(SubSeq(s, 1, Len(s) - 1), S) ELSE s

\* str.strip(chars)
StripSet(s, S) == RStripSet(LStripSet(s, S), S)

\* str.replace(c, "") for every c in S
RemoveAll(s, S) == SelectSeq(s, LAMBDA c : c \notin S)

\* str.lower() on the letters that matter
Lower(c) ==
  CASE c = "B" -> "b"
    [] c = "O" -> "o"
    [] c = "T" -> "t"
    [] OTHER -> c

\* working.lower().startswith("bot ")
StartsWithBot(s) ==
  /\ Len(s) >= 4
  /\ Lower(s[1]) = "b"
  /\ Lower(s[2]) = "o"
  /\ Lower(s[3]) = "t"
  /\ s[4] = "SP"

NormalizeToken(t) ==
  LET w1 == StripSet(t, Whitespace)
      w2 == IF Len(w1) >= 2 /\ w1[1] = w1[Len(w1)] /\ w1[1] \in QuoteChars
            THEN StripSet(SubSeq(w1, 2, Len(w1) - 1), Whitespace)
            ELSE w1
      w3 == StripSet(w2, QuoteChars)
      w4 == RemoveAll(w3, {"NL", "CR"})
      w5 == IF StartsWithBot(w4)
            THEN LStripSet(SubSeq(w4, 5, Len(w4)), Whitespace)
            ELSE w4
  IN  RemoveAll(w5, {"ZW"})

\* the raw credentials a session is started with (cli._prompt_token has
\* stripped them and asks again for an empty one)
RawTokens ==
  { <<"a", "b">>,
    <<"SQ", "B", "o", "t", "SP", "a", "NL", "b", "SQ">>,
    <<"DQ", "SP", "DQ">> }

(***************************************************************************)
(* Configurations, errors and the initial state of a session.              *)
(***************************************************************************)
Servers == 1..MaxServers

\* SessionConfig as cli.collect_session_configuration builds it:
\* at least one server; invitation None, by identifier or by name#dddd;
\* webhook None or enabled with a URL.
Configs ==
  { c \in [nservers : Servers, invitation : {"none", "id", "name"},
           grant_admin : BOOLEAN, webhook : {"none", "on"}] :
      c.invitation = "none" => c.grant_admin }

\* an absent (None) field is the empty sequence
NoValue == << >>
TargetId == <<"uid">>
TargetName == <<"name">>
TargetDiscriminator == <<"0001">>

\* utils.parse_target_user: exactly one form is populated
InitialInvitation(form) ==
  CASE form = "id" ->
         [user_id |-> TargetId, username |-> NoValue, discriminator |-> NoValue]
    [] form = "name" ->
         [user_id |-> NoValue, username |-> TargetName,
          discriminator |-> TargetDiscriminator]
    [] OTHER ->
         [user_id |-> NoValue, username |-> NoValue, discriminator |-> NoValue]

\* no member is at hand
NoMember == [guild |-> 0, id |-> << >>]

\* the guild no fetch has returned yet
NoGuild == [system |-> FALSE, text |-> << >>]

\* what fetch_guild can return: guild.system_channel is None or not, and
\* guild.text_channels with create_instant_invite of permissions_for
GuildShapes == [system : BOOLEAN, text : Seqs(BOOLEAN, MaxChannels)]

\* the remote calls whose invocations are counted
CountedOps == {"relationship", "create_guild", "add_roles"}
NoCalls == [op \in CountedOps |-> [issued |-> 0, ok |-> 0, limited |-> 0]]
Bump(n) == IF n < CountCap THEN n + 1 ELSE n

\* raise DiscordOperationError(...) from an HTTPException
DOE(e) ==
  CASE e = "HTTP429" -> "DiscordOperationError(429)"
    [] e = "HTTP403" -> "DiscordOperationError(403)"
    [] e = "HTTP500" -> "DiscordOperationError(500)"
    [] OTHER -> e

\* lines 101-106 of _provision_server
GuildError(e) ==
  IF e = "HTTP403" THEN "DiscordOperationError(denied)"
  ELSE IF IsHTTPException(e) THEN DOE(e)
  ELSE e

\* what client.login (line 209) ends in: discord.LoginFailure, an
\* HTTPException with its status, or an error of the connection, which is
\* neither
LoginOutcomes ==
  {"ok", "LoginFailure", "HTTP401", "HTTP403", "HTTP429", "HTTP500", "OtherError"}

\* _authenticate lines 211-218 and _build_authentication_error; an
\* exception of another class is not handled
AuthError(e) ==
  CASE e = "LoginFailure" -> "AuthenticationError(rejected)"
    [] e = "HTTP401" -> "AuthenticationError(rejected)"
    [] e = "HTTP403" -> "AuthenticationError(denied)"
    [] e = "HTTP429" -> "AuthenticationError(rate limited)"
    [] e = "HTTP500" -> "AuthenticationError(HTTP 500)"
    [] OTHER -> e

\* what a call through the discord client can end in: once the client is
\* closed its HTTP session is closed and every request fails
RemoteOutcomes ==
  IF closed THEN {"SessionClosed"}
  ELSE {"ok", "HTTP429", "HTTP500", "OtherError"}

\* guild creation distinguishes discord.Forbidden (lines 101-102)
GuildOutcomes ==
  IF closed THEN {"SessionClosed"} ELSE RemoteOutcomes \cup {"HTTP403"}

\* DiscordProvisioner.__init__ and _ProvisioningClient.__init__
SessionInit ==
  /\ cfg \in Configs
  /\ token \in RawTokens
  /\ e_pc = "authenticate"
  /\ e_raise = "None"
  /\ e_out = "none"
  /\ e_err = "None"
  /\ t_pc = "none"
  /\ cur = 0
  /\ attempt = 0
  /\ inner = 0
  /\ data = "none"
  /\ member = NoMember
  /\ results = << >>
  /\ exception = "None"
  /\ closed = FALSE
  /\ ready = FALSE
  /\ wh = "none"
  /\ inv = InitialInvitation(cfg.invitation)
  /\ admin_roles = {}
  /\ channel = "none"
  /\ guild = NoGuild
  /\ invited = {}
  /\ members = {}
  /\ subs = {}
  /\ log = << >>
  /\ probe = "none"
  /\ logins = << >>
  /\ login_out = "none"
  /\ calls = NoCalls

(***************************************************************************)
(* DiscordProvisioner.execute, on the main coroutine.                      *)
(***************************************************************************)
\* the variables only the provisioning task and its environment change:
\* the position and locals of the coroutine with its pending wait_for, and
\* what outlives it
\* what only _authenticate changes
authvars == <<probe, logins, login_out>>

tasklocals == <<t_pc, attempt, inner, data, member, channel, guild, subs>>
taskrest == <<cur, results, exception, inv, admin_roles, invited, members, log,
              calls>>
taskvars == <<tasklocals, taskrest>>

\* _authenticate lines 178-205: normalize, reject the empty credential
Authenticate ==
  /\ e_pc = "authenticate"
  /\ LET t == NormalizeToken(token) IN
     IF t = << >>
     THEN /\ e_raise' = "AuthenticationError(empty)"
          /\ e_pc' = "close_client"
          /\ token' = token
     ELSE /\ token' = t
          /\ e_pc' = "probe"
          /\ e_raise' = e_raise
  /\ UNCHANGED <<authvars, cfg, e_out, e_err, closed, ready, wh, taskvars, othervars>>

\* what the request of _validate_token_with_rest (lines 227-250) ends in:
\* status 200, another status, asyncio.TimeoutError, aiohttp.ClientError or
\* any other Exception
ProbeOutcomes == {"200", "non200", "timeout", "client_error", "other_error"}

\* _validate_token_with_rest lines 221-230: the request is sent with the
\* normalized credential and the coroutine waits for its end
ValidateTokenWithRest ==
  /\ e_pc = "probe"
  /\ \E out \in ProbeOutcomes : probe' = out
  /\ e_pc' = "probe_done"
  /\ UNCHANGED <<logins, login_out, cfg, token, e_raise, e_out, e_err, closed,
                 ready, wh, taskvars, othervars>>

\* a response that is not 200 is taken as a rejected credential
ProbeGates ==
  IF probe = "non200"
  THEN e_raise' = "AuthenticationError(rejected)" /\ e_pc' = "close_client"
  ELSE e_raise' = e_raise /\ e_pc' = "login"

\* lines 231-250: every outcome is logged and swallowed, and _authenticate
\* goes on to line 207
ProbeHandled ==
  e_raise' = e_raise /\ e_pc' = "login"

ValidateTokenReturns ==
  /\ e_pc = "probe_done"
  /\ ProbeHandled
  /\ probe' = "none"
  /\ UNCHANGED <<logins, login_out, cfg, token, e_out, e_err, closed, ready, wh,
                 taskvars, othervars>>

\* _authenticate lines 207-218: client.login(token); a successful login
\* ends with setup_hook (lines 55-56), which creates the provisioning task
Login ==
  /\ e_pc = "login"
  /\ logins' = Append(logins, token)
  /\ \E out \in LoginOutcomes :
       /\ login_out' = out
       /\ IF out = "ok"
          THEN /\ t_pc' = "wait_ready"
               /\ e_pc' = "connect"
               /\ e_raise' = e_raise
          ELSE /\ e_raise' = AuthError(out)
               /\ e_pc' = "close_client"
               /\ t_pc' = t_pc
  /\ UNCHANGED <<probe, cfg, token, e_out, e_err, closed, ready, wh, cur, attempt,
                 inner, data, member, results, exception, inv, admin_roles, channel, guild,
                 invited,                  members, subs, log, calls, othervars>>

\* line 167, inside connect: the gateway sends READY
GatewayReady ==
  /\ e_pc = "connect"
  /\ ~closed
  /\ ~ready
  /\ ready' = TRUE
  /\ UNCHANGED <<authvars, cfg, token, e_pc, e_raise, e_out, e_err, closed, wh, taskvars, othervars>>

\* the end of execute: the exception pending in the finally blocks
\* propagates; else lines 174-176 raise the task's recorded exception or
\* return the results.  _async_main then returns without suspending and
\* asyncio.run (main.py line 48) cancels the task if it is still pending:
\* CancelledError is no Exception, so line 85 records nothing, the pending
\* wait_for is cancelled and the coroutine's frame is gone.
ExecuteEnds(raise) ==
  /\ e_pc' = "done"
  /\ IF raise # "None"
     THEN e_out' = "raised" /\ e_err' = raise
     ELSE IF exception # "None"
          THEN e_out' = "raised" /\ e_err' = exception
          ELSE e_out' = "returned" /\ e_err' = e_err
  /\ IF t_pc \in {"none", "done"}
     THEN UNCHANGED tasklocals
     ELSE /\ t_pc' = "cancelled"
          /\ attempt' = 0
          /\ inner' = 0
          /\ data' = "none"
          /\ member' = NoMember
          /\ channel' = "none" /\ guild' = NoGuild
          /\ subs' = {}

\* lines 168-173 once connect has ended: the client is closed already, so
\* line 170 does not suspend; WebhookNotifier.close (webhook.py lines
\* 65-67) suspends only when a session is open
AfterConnect(raise) ==
  /\ e_raise' = raise
  /\ IF cfg.webhook # "none" /\ wh = "open"
     THEN e_pc' = "close_webhook" /\ UNCHANGED <<e_out, e_err, tasklocals>>
     ELSE ExecuteEnds(raise)

\* line 167, connect(reconnect=False): the gateway connection is lost;
\* connect closes the client and returns (clean close) or raises
ConnectLost ==
  /\ e_pc = "connect"
  /\ ~closed
  /\ closed' = TRUE
  /\ ready' = FALSE
  /\ \E r \in {"None", "GatewayError"} : AfterConnect(r)
  /\ UNCHANGED <<authvars, cfg, token, wh, taskrest, othervars>>

\* line 167: connect returns because the task closed the client (line 88)
ConnectReturns ==
  /\ e_pc = "connect"
  /\ closed
  /\ AfterConnect("None")
  /\ UNCHANGED <<authvars, cfg, token, closed, ready, wh, taskrest, othervars>>

\* lines 168-170 when _authenticate raised: await self._client.close()
ExecuteCloseClient ==
  /\ e_pc = "close_client"
  /\ closed' = TRUE
  /\ ready' = FALSE
  /\ e_pc' = "close_webhook"
  /\ UNCHANGED <<authvars, cfg, token, e_raise, e_out, e_err, wh, taskvars, othervars>>

\* lines 171-176: await self._webhook.close(), then the end of execute
ExecuteCloseWebhook ==
  /\ e_pc = "close_webhook"
  /\ wh' = IF cfg.webhook # "none" /\ wh = "open" THEN "closed" ELSE wh
  /\ ExecuteEnds(e_raise)
  /\ UNCHANGED <<authvars, cfg, token, e_raise, closed, ready, taskrest, othervars>>

(***************************************************************************)
(* _ProvisioningClient._execute_provisioning, the background task.         *)
(***************************************************************************)
\* the variables no step of the task changes
mainvars == <<authvars, cfg, token, e_pc, e_raise, e_out, e_err, ready, members, othervars>>

\* the task runs while the event loop does: asyncio.run ends the loop
\* right after execute has ended
TaskRuns == e_pc # "done"

\* ghost bookkeeping of the remote call `op` for server s ending in `out`;
\* a request on a closed session is never sent
Counted(op, out) ==
  IF op \in CountedOps /\ out # "SessionClosed"
  THEN [calls EXCEPT ![op] =
          [issued |-> Bump(@.issued),
           ok |-> IF out = "ok" THEN Bump(@.ok) ELSE @.ok,
           limited |-> IF out = "HTTP429" THEN Bump(@.limited) ELSE @.limited]]
  ELSE calls

\* the log entry of the call or event `op` for server s
Entry(op, s, ok) == [op |-> op, srv |-> s, done |-> Len(results), ok |-> ok]

HasEntry(l, op, s) == \E i \in 1..Len(l) : l[i].op = op /\ l[i].srv = s

\* ghost: a call is entered when first issued; its entry keeps the outcome
\* of its latest invocation
Logged(l, op, s, out) ==
  IF out = "SessionClosed" THEN l
  ELSE IF HasEntry(l, op, s)
       THEN [i \in 1..Len(l) |->
               IF l[i].op = op /\ l[i].srv = s
               THEN [l[i] EXCEPT !.ok = (out = "ok")] ELSE l[i]]
       ELSE Append(l, Entry(op, s, out = "ok"))

\* the with_rate_limit_retry call a pc belongs to: _create_guild holds
\* create_guild and fetch_guild, _operation the relationship request and
\* its fetch_user
PhaseOf(pc) ==
  CASE pc \in {"create_guild", "fetch_guild"} -> "create_guild"
    [] pc \in {"relationship", "friend_response", "friend_fetch_user"} ->
         "relationship"
    [] OTHER -> pc

\* the pcs at which a call through with_rate_limit_retry is issued
CallPcs ==
  {"relationship", "friend_fetch_user", "create_guild", "fetch_guild",
   "create_text_channel", "create_invite", "create_role", "fetch_user",
   "create_dm", "send", "add_roles"}

\* the counters start afresh when the task enters another
\* with_rate_limit_retry call or moves on to the next server
Fresh == cur' # cur \/ (t_pc' \in CallPcs /\ PhaseOf(t_pc') # PhaseOf(t_pc))

Count(op, out) == calls' = IF Fresh THEN NoCalls ELSE Counted(op, out)

Record(op, s, out) ==
  /\ log' = Logged(log, op, s, out)
  /\ Count(op, out)

\* a step that issues no counted call
NoCall == calls' = IF Fresh THEN NoCalls ELSE calls

\* invite.url of the invite created for server s: the library builds it
\* from its base URL and the invite code
InviteUrl(s) == <<"discord.gg", s>>

\* the result holds no invite link
ResultWithoutInvite(s) == [req |-> s, invite_url |-> NoValue]

\* ServerProvisionResult (lines 143-147)
Result(s) == [req |-> s, invite_url |-> InviteUrl(s)]

\* continue at pc, a step that does not use text_channel (its last use is
\* line 123)
K(pc) ==
  /\ t_pc' = pc
  /\ attempt' = 0
  /\ channel' = "none" /\ guild' = NoGuild
  /\ UNCHANGED <<cur, results, exception>>

\* utils.py lines 73-75: sleep, then the operation is run again from pc
KSleep(pc) ==
  /\ t_pc' = pc
  /\ attempt' = attempt + 1
  /\ UNCHANGED <<cur, results, exception, channel, guild>>

\* the error is recorded but the loop goes on with the next server
KFailContinues(err) ==
  /\ attempt' = 0
  /\ exception' = err
  /\ channel' = "none" /\ guild' = NoGuild
  /\ results' = results
  /\ IF cur < cfg.nservers
     THEN cur' = cur + 1 /\ t_pc' = "create_guild"
     ELSE cur' = cur /\ t_pc' = "closing"

\* lines 84-86: except Exception: self._exception = exc
KFail(err) ==
  /\ t_pc' = "closing"
  /\ attempt' = 0
  /\ exception' = err
  /\ channel' = "none" /\ guild' = NoGuild
  /\ UNCHANGED <<cur, results>>

\* line 72: the for loop takes the next server, or line 83 is reached
KAdvance ==
  /\ attempt' = 0
  /\ channel' = "none" /\ guild' = NoGuild
  /\ IF cur < cfg.nservers
     THEN cur' = cur + 1 /\ t_pc' = "create_guild"
     ELSE cur' = cur /\ t_pc' = "closing"

\* the result is put at the front of the list
KFinishPrepends ==
  /\ results' = <<Result(cur)>> \o results
  /\ exception' = exception
  /\ IF cfg.webhook # "none"
     THEN /\ t_pc' = "notify" /\ attempt' = 0 /\ cur' = cur
          /\ channel' = "none" /\ guild' = NoGuild
     ELSE KAdvance

\* lines 143-147 and 73-75: _provision_server returns, the result is
\* appended, and the notification follows when a webhook is configured
KFinish ==
  /\ results' = Append(results, Result(cur))
  /\ exception' = exception
  /\ IF cfg.webhook # "none"
     THEN /\ t_pc' = "notify" /\ attempt' = 0 /\ cur' = cur
          /\ channel' = "none" /\ guild' = NoGuild
     ELSE KAdvance

\* _grant_admin_to_member lines 175-180, up to the add_roles call
EnterGrant ==
  IF ~cfg.grant_admin \/ cur \notin admin_roles THEN KFinish ELSE K("add_roles")

\* the member cache is not consulted
MonitorPathAlwaysWaits ==
  IF ~cfg.grant_admin \/ inv.user_id = NoValue THEN "skip" ELSE "wait"

\* monitor_member_join lines 148-156: return at once, grant the role to the
\* member found, or wait for the join
MonitorPath ==
  IF ~cfg.grant_admin \/ inv.user_id = NoValue THEN "skip"
  ELSE IF cur \in members THEN "member"
  ELSE "wait"

\* monitor_member_join lines 148-165, up to its first suspension
EnterMonitor ==
  CASE MonitorPath = "skip" -> KFinish
    [] MonitorPath = "member" -> EnterGrant
    [] OTHER -> K("wait_join")

\* ghost: what monitor_member_join did before its first suspension
MonitorEvents(l) ==
  LET l1 == IF cfg.grant_admin /\ inv.user_id # NoValue
            THEN Append(l, Entry(IF cur \in members THEN "get_member:found"
                                 ELSE "get_member:none", cur, TRUE))
            ELSE l
  IN  IF MonitorPath = "wait" THEN Append(l1, Entry("wait_for", cur, TRUE)) ELSE l1

\* create_invite_and_dm lines 113-116, then lines 140-141
EnterDm ==
  IF inv.user_id = NoValue
  THEN KFail("DiscordOperationError(no target id)")
  ELSE K("fetch_user")

\* a failed call is treated as a success
RetriedSwallows(out, OnOk, restart, err) ==
  LET d == RetryDecision(out, attempt, DefaultRetries) IN
  CASE d = "sleep" -> KSleep(restart)
    [] OTHER -> OnOk

\* one more attempt is made than `retries` allows
RetriedOnceMore(out, OnOk, restart, err) ==
  LET d == RetryDecision(out, attempt, DefaultRetries + 1) IN
  CASE d = "return" -> OnOk
    [] d = "sleep" -> KSleep(restart)
    [] OTHER -> KFail(err)

\* a call wrapped by with_rate_limit_retry: its outcome `out`, the
\* continuation OnOk, the pc the operation restarts from, the error raised
Retried(out, OnOk, restart, err) ==
  LET d == RetryDecision(out, attempt, DefaultRetries) IN
  CASE d = "return" -> OnOk
    [] d = "sleep" -> KSleep(restart)
    [] OTHER -> KFail(err)

\* lines 64-70 and send_friend_request lines 47-63
WaitUntilReady ==
  /\ TaskRuns
  /\ t_pc = "wait_ready"
  /\ ready
  /\ IF cfg.invitation # "none"
     THEN IF inv.user_id = NoValue
             /\ (inv.username = NoValue \/ inv.discriminator = NoValue)
          THEN KFail("DiscordOperationError(username and discriminator required)")
          ELSE K("relationship")
     ELSE /\ t_pc' = "create_guild"
          /\ cur' = 1
          /\ UNCHANGED <<attempt, results, exception, channel, guild>>
  /\ NoCall
  /\ UNCHANGED <<data, member, inner, inv, admin_roles, invited, subs, wh, closed, log, mainvars>>

\* send_friend_request lines 105-110
FriendError(e) == DOE(e)

\* what the relationship request's response body holds
ResponseShapes == {"empty", "full", "id_only", "no_id"}

Resolved ==
  [user_id |-> TargetId, username |-> TargetName,
   discriminator |-> TargetDiscriminator]

\* line 72: the for loop takes the first server
KFirst ==
  /\ t_pc' = "create_guild"
  /\ cur' = 1
  /\ attempt' = 0
  /\ UNCHANGED <<results, exception, channel, guild>>

\* send_friend_request._operation line 66: the relationship request; its
\* response body is kept in `data`
SendFriendRequest ==
  /\ TaskRuns
  /\ t_pc = "relationship"
  /\ \E out \in RemoteOutcomes, body \in ResponseShapes :
       /\ IF out = "ok"
          THEN /\ t_pc' = "friend_response"
               /\ data' = body
               /\ UNCHANGED <<cur, attempt, results, exception, channel, guild>>
          ELSE /\ Retried(out, FALSE, "relationship", FriendError(out))
               /\ data' = "none"
       /\ Record("relationship", 0, out)
  /\ UNCHANGED <<member, inv, inner, admin_roles, invited, subs, wh, closed, mainvars>>

\* the response is taken as resolving the target whatever it holds
FriendResponseTrusts ==
  /\ inv' = [inv EXCEPT !.username = IF data = "full" THEN TargetName ELSE @]
  /\ KFirst
  /\ inner' = inner

\* send_friend_request._operation lines 68-84 and 92-103: the response
\* resolves the target, or asks for the fetch by identifier, or is an error
FriendResponseHandled ==
  CASE data = "empty" ->
         IF inv.user_id = NoValue
         THEN KFail("DiscordOperationError(unable to resolve)")
              /\ UNCHANGED <<inv, inner>>
         ELSE /\ t_pc' = "friend_fetch_user"
              /\ inner' = 0
              /\ UNCHANGED <<inv, cur, attempt, results, exception, channel, guild>>
    [] data = "no_id" ->
         KFail("DiscordOperationError(unexpected response)")
         /\ UNCHANGED <<inv, inner>>
    [] data = "full" ->
         /\ inv' = Resolved
         /\ KFirst
         /\ inner' = inner
    [] OTHER ->
         /\ inv' = [inv EXCEPT !.user_id = TargetId]
         /\ KFirst
         /\ inner' = inner

FriendResponse ==
  /\ TaskRuns
  /\ t_pc = "friend_response"
  /\ FriendResponseHandled
  /\ data' = "none"
  /\ log' = log
  /\ NoCall
  /\ UNCHANGED <<member, admin_roles, invited, subs, wh, closed, mainvars>>

\* send_friend_request._operation lines 85-103: the nested
\* with_rate_limit_retry around fetch_user; what it raises reaches the
\* outer with_rate_limit_retry, which runs _operation again on a 429
FriendFetchUser ==
  /\ TaskRuns
  /\ t_pc = "friend_fetch_user"
  /\ \E out \in RemoteOutcomes :
       /\ LET d == RetryDecision(out, inner, DefaultRetries) IN
          CASE d = "return" ->
                 /\ inv' = Resolved
                 /\ KFirst
                 /\ inner' = 0
            [] d = "sleep" ->
                 /\ inner' = inner + 1
                 /\ UNCHANGED <<inv, t_pc, cur, attempt, results, exception, channel, guild>>
            [] OTHER ->
                 /\ Retried(out, FALSE, "relationship", FriendError(out))
                 /\ inner' = 0
                 /\ inv' = inv
       /\ Record("fetch_user", 0, out)
  /\ UNCHANGED <<data, member, admin_roles, invited, subs, wh, closed, mainvars>>

\* _provision_server._create_guild line 95
CreateGuild ==
  /\ TaskRuns
  /\ t_pc = "create_guild"
  /\ \E out \in GuildOutcomes :
       /\ Retried(out,
                  /\ t_pc' = "fetch_guild"
                  /\ UNCHANGED <<attempt, cur, results, exception, channel, guild>>,
                  "create_guild", GuildError(out))
       /\ Record("create_guild", cur, out)
  /\ UNCHANGED <<data, member, inner, inv, admin_roles, invited, subs, wh, closed, mainvars>>

TextChannelNames == <<"text1", "text2", "text3", "text4">>

\* the first text channel is taken whatever its permissions
SelectChannelAnyText(g) ==
  IF g.system THEN "system"
  ELSE IF g.text # << >> THEN TextChannelNames[1]
       ELSE "none"

\* lines 110-115: the system channel, else the first text channel whose
\* permissions allow invites, else None
SelectChannel(g) ==
  IF g.system THEN "system"
  ELSE IF \E i \in 1..Len(g.text) : g.text[i]
       THEN TextChannelNames[CHOOSE i \in 1..Len(g.text) :
                               g.text[i] /\ \A j \in 1..(i - 1) : ~g.text[j]]
       ELSE "none"

\* _create_guild lines 96-97 and lines 108-117: fetch_guild; a rate-limited
\* fetch makes with_rate_limit_retry run _create_guild again
FetchGuild ==
  /\ TaskRuns
  /\ t_pc = "fetch_guild"
  /\ \E out \in GuildOutcomes, g \in GuildShapes :
       /\ Retried(out,
                  /\ guild' = g
                  /\ channel' = SelectChannel(g)
                  /\ t_pc' = IF SelectChannel(g) = "none"
                             THEN "create_text_channel" ELSE "create_invite"
                  /\ attempt' = 0
                  /\ UNCHANGED <<cur, results, exception>>,
                  "create_guild", GuildError(out))
       /\ Record("fetch_guild", cur, out)
  /\ UNCHANGED <<data, member, inner, inv, admin_roles, invited, subs, wh, closed, mainvars>>

\* lines 117-119
CreateTextChannel ==
  /\ TaskRuns
  /\ t_pc = "create_text_channel"
  /\ \E out \in RemoteOutcomes :
       /\ Retried(out,
                  /\ channel' = "general"
                  /\ guild' = guild
                  /\ t_pc' = "create_invite"
                  /\ attempt' = 0
                  /\ UNCHANGED <<cur, results, exception>>,
                  "create_text_channel", out)
       /\ Record("create_text_channel", cur, out)
  /\ UNCHANGED <<data, member, inner, inv, admin_roles, invited, subs, wh, closed, mainvars>>

\* lines 121-128, then 138 (lines 113-116) or 143-147
CreateInvite ==
  /\ TaskRuns
  /\ t_pc = "create_invite"
  /\ \E out \in RemoteOutcomes :
       /\ invited' = IF out = "ok" THEN invited \cup {cur} ELSE invited
       /\ Retried(out,
                  IF cfg.invitation # "none"
                  THEN IF cfg.grant_admin THEN K("create_role") ELSE EnterDm
                  ELSE KFinish,
                  "create_invite", out)
       /\ Record("create_invite", cur, out)
  /\ UNCHANGED <<data, member, inner, inv, admin_roles, subs, wh, closed, mainvars>>

\* lines 128-138: create_role, register_admin_role (invitations.py
\* lines 138-143), then create_invite_and_dm up to its first call
CreateRole ==
  /\ TaskRuns
  /\ t_pc = "create_role"
  /\ \E out \in RemoteOutcomes :
       /\ admin_roles' = IF out = "ok" /\ cfg.grant_admin
                         THEN admin_roles \cup {cur} ELSE admin_roles
       /\ Retried(out, EnterDm, "create_role", out)
       /\ Record("create_role", cur, out)
  /\ UNCHANGED <<data, member, inner, inv, invited, subs, wh, closed, mainvars>>

\* create_invite_and_dm lines 117-122
DmFetchUser ==
  /\ TaskRuns
  /\ t_pc = "fetch_user"
  /\ \E out \in RemoteOutcomes :
       /\ Retried(out, K("create_dm"), "fetch_user", DOE(out))
       /\ Record("fetch_user", cur, out)
  /\ UNCHANGED <<data, member, inner, inv, admin_roles, invited, subs, wh, closed, mainvars>>

\* create_invite_and_dm lines 129-130 and 132-135
DmCreate ==
  /\ TaskRuns
  /\ t_pc = "create_dm"
  /\ \E out \in RemoteOutcomes :
       /\ Retried(out, K("send"), "create_dm", DOE(out))
       /\ Record("create_dm", cur, out)
  /\ UNCHANGED <<data, member, inner, inv, admin_roles, invited, subs, wh, closed, mainvars>>

\* create_invite_and_dm lines 131-136, then lines 140-147 with
\* monitor_member_join up to wait_for (the listener is registered there)
DmSend ==
  /\ TaskRuns
  /\ t_pc = "send"
  /\ \E out \in RemoteOutcomes :
       /\ subs' = IF out = "ok" /\ cfg.grant_admin /\ MonitorPath = "wait"
                  THEN subs \cup {cur} ELSE subs
       /\ Retried(out, IF cfg.grant_admin THEN EnterMonitor ELSE KFinish,
                  "send", DOE(out))
       /\ log' = IF out = "ok" /\ cfg.grant_admin
                 THEN MonitorEvents(Logged(log, "send", cur, out))
                 ELSE Logged(log, "send", cur, out)
       /\ Count("send", out)
  /\ member' = IF t_pc' = "add_roles"
               THEN [guild |-> cur, id |-> inv.user_id] ELSE NoMember
  /\ UNCHANGED <<data, inner, inv, admin_roles, invited, wh, closed, mainvars>>

\* the users a member_join event can be about
OtherId == <<"other">>
JoinUsers == {TargetId, OtherId}

\* the predicate given to wait_for accepts no event
JoinCheckNeverMatches(g, u, waited, user_id) == FALSE

\* the predicate given to wait_for looks at the guild only
JoinCheckAnyUser(g, u, waited, user_id) == g = waited

\* monitor_member_join line 164, the check of wait_for
JoinCheck(g, u, waited, user_id) == g = waited /\ u = user_id

\* the gateway delivers member_join for user u in guild g; wait_for
\* (lines 161-165) returns the member when the check accepts it, and lines
\* 172-173 go on to _grant_admin_to_member.  The joins the program can
\* observe are modelled: it looks at members only in monitor_member_join
\* (auto-grant); the invite of the server being provisioned reaches the
\* target with the DM, so the target joins it while the DM request is
\* pending or later; any other join matters while a wait_for is pending.
MemberJoin ==
  /\ TaskRuns
  /\ ready
  /\ ~closed
  /\ cfg.invitation # "none"
  /\ cfg.grant_admin
  /\ \E g \in invited, u \in JoinUsers :
       /\ (g = cur /\ u = TargetId /\ t_pc = "send") \/ t_pc = "wait_join"
       /\ u = TargetId => g \notin members
       /\ members' = IF u = TargetId THEN members \cup {g} ELSE members
       /\ IF t_pc = "wait_join" /\ cur \in subs /\ JoinCheck(g, u, cur, inv.user_id)
          THEN /\ subs' = subs \ {cur}
               /\ EnterGrant
               /\ member' = IF t_pc' = "add_roles"
                            THEN [guild |-> g, id |-> u] ELSE NoMember
          ELSE UNCHANGED <<member, subs, t_pc, attempt, cur, results, exception, channel, guild>>
  /\ NoCall
  /\ UNCHANGED <<data, inner, inv, admin_roles, invited, wh, closed, log,
                 authvars, cfg, token, e_pc, e_raise, e_out, e_err, ready, othervars>>

\* the timeout is not caught
JoinTimeoutRaises ==
  /\ TaskRuns
  /\ t_pc = "wait_join"
  /\ subs' = subs \ {cur}
  /\ log' = Append(log, Entry("timeout", cur, TRUE))
  /\ KFail("TimeoutError")
  /\ NoCall
  /\ UNCHANGED <<data, member, inner, inv, admin_roles, invited, wh, closed, mainvars>>

\* the wait ends but its listener stays registered
JoinTimeoutKeepsListener ==
  /\ TaskRuns
  /\ t_pc = "wait_join"
  /\ subs' = subs
  /\ log' = Append(log, Entry("timeout", cur, TRUE))
  /\ KFinish
  /\ NoCall
  /\ UNCHANGED <<data, member, inner, inv, admin_roles, invited, wh, closed, mainvars>>

\* monitor_member_join lines 166-170: asyncio.TimeoutError, the wait is
\* cancelled and None is returned
JoinTimeout ==
  /\ TaskRuns
  /\ t_pc = "wait_join"
  /\ subs' = subs \ {cur}
  /\ log' = Append(log, Entry("timeout", cur, TRUE))
  /\ KFinish
  /\ NoCall
  /\ UNCHANGED <<data, member, inner, inv, admin_roles, invited, wh, closed, mainvars>>

\* _grant_admin_to_member lines 181-187
AddRoles ==
  /\ TaskRuns
  /\ t_pc = "add_roles"
  /\ \E out \in RemoteOutcomes :
       /\ Retried(out, KFinish, "add_roles", DOE(out))
       /\ Record("add_roles", member.guild, out)
  /\ member' = IF t_pc' = "add_roles" THEN member ELSE NoMember
  /\ UNCHANGED <<data, inner, inv, admin_roles, invited, subs, wh, closed, mainvars>>

\* WebhookNotifier.notify lines 57-63
NotifyOutcomes == {"ok", "status>=400", "timeout", "client_error"}
NotifyError(out) ==
  CASE out = "status>=400" -> "DiscordOperationError(webhook status)"
    [] out = "timeout" -> "DiscordOperationError(webhook timeout)"
    [] OTHER -> "ClientError"

\* a failed notification is dropped and the loop goes on
NotifyKeepsGoing ==
  /\ TaskRuns
  /\ t_pc = "notify"
  /\ IF cfg.webhook # "on"
     THEN /\ KAdvance
          /\ UNCHANGED <<wh, log, results, exception>>
     ELSE \E out \in NotifyOutcomes :
            /\ wh' = "open"
            /\ log' = Append(log, Entry("notify", cur, out = "ok"))
            /\ KAdvance /\ UNCHANGED <<results, exception>>
  /\ NoCall
  /\ UNCHANGED <<data, member, inner, inv, admin_roles, invited, subs, closed, mainvars>>

\* lines 75-81 and WebhookNotifier.notify (webhook.py lines 35-63); no
\* with_rate_limit_retry here
Notify ==
  /\ TaskRuns
  /\ t_pc = "notify"
  /\ IF cfg.webhook # "on"
     THEN /\ KAdvance
          /\ UNCHANGED <<wh, log, results, exception>>
     ELSE \E out \in NotifyOutcomes :
            /\ wh' = "open"
            /\ log' = Append(log, Entry("notify", cur, out = "ok"))
            /\ IF out = "ok"
               THEN KAdvance /\ UNCHANGED <<results, exception>>
               ELSE KFail(NotifyError(out))
  /\ NoCall
  /\ UNCHANGED <<data, member, inner, inv, admin_roles, invited, subs, closed, mainvars>>

\* line 88: finally: await self.close()
CloseTask ==
  /\ TaskRuns
  /\ t_pc = "closing"
  /\ t_pc' = "done"
  /\ closed' = TRUE
  /\ ready' = FALSE
  /\ UNCHANGED <<authvars, cfg, token, e_pc, e_raise, e_out, e_err, members, othervars,
                 cur, attempt, inner, data, member, results, exception, inv, admin_roles,
                 channel, guild, invited, subs, wh, log, calls>>

Next ==
  \/ Authenticate
  \/ ValidateTokenWithRest
  \/ ValidateTokenReturns
  \/ Login
  \/ GatewayReady
  \/ ConnectLost
  \/ ConnectReturns
  \/ ExecuteCloseClient
  \/ ExecuteCloseWebhook
  \/ WaitUntilReady
  \/ SendFriendRequest
  \/ FriendResponse
  \/ FriendFetchUser
  \/ CreateGuild
  \/ FetchGuild
  \/ CreateTextChannel
  \/ CreateInvite
  \/ CreateRole
  \/ DmFetchUser
  \/ DmCreate
  \/ DmSend
  \/ MemberJoin
  \/ JoinTimeout
  \/ AddRoles
  \/ Notify
  \/ CloseTask

\* with_rate_limit_retry is not running in a session's own state
RetryIdle ==
  /\ rp = [retries |-> DefaultRetries, base_delay |-> 2, backoff_factor |-> 2]
  /\ r_attempt = 0
  /\ r_delay = 2
  /\ r_calls = 0
  /\ r_sleeps = << >>
  /\ r_outs = << >>
  /\ r_state = "returned"
  /\ r_result = "none"

\* no pure function is being called
PureIdle ==
  /\ fn = "none"
  /\ arg = << >>
  /\ ret = << >>

Init == SessionInit /\ RetryIdle /\ PureIdle

Spec == Init /\ [][Next]_vars

\* the steps that are bound to happen: every coroutine that can run does,
\* every request is answered, the timer of wait_for fires, and the gateway
\* becomes ready or the connection is lost before that.  A member joining
\* and the loss of an established connection are not bound to happen.
Progress ==
  \/ Authenticate
  \/ ValidateTokenWithRest
  \/ ValidateTokenReturns
  \/ Login
  \/ GatewayReady
  \/ (ConnectLost /\ ~ready)
  \/ ConnectReturns
  \/ ExecuteCloseClient
  \/ ExecuteCloseWebhook
  \/ WaitUntilReady
  \/ SendFriendRequest
  \/ FriendResponse
  \/ FriendFetchUser
  \/ CreateGuild
  \/ FetchGuild
  \/ CreateTextChannel
  \/ CreateInvite
  \/ CreateRole
  \/ DmFetchUser
  \/ DmCreate
  \/ DmSend
  \/ JoinTimeout
  \/ AddRoles
  \/ Notify
  \/ CloseTask

SpecLive == Init /\ [][Next]_vars /\ WF_vars(Progress)

(***************************************************************************)
(* with_rate_limit_retry on its own.                                       *)
(***************************************************************************)
\* no session is running
SessionIdle ==
  /\ cfg = [nservers |-> 1, invitation |-> "none", grant_admin |-> TRUE,
            webhook |-> "none"]
  /\ token = << >>
  /\ e_pc = "done"
  /\ e_raise = "None"
  /\ e_out = "none"
  /\ e_err = "None"
  /\ t_pc = "none"
  /\ cur = 0
  /\ attempt = 0
  /\ inner = 0
  /\ data = "none"
  /\ member = NoMember
  /\ results = << >>
  /\ exception = "None"
  /\ closed = FALSE
  /\ ready = FALSE
  /\ wh = "none"
  /\ inv = InitialInvitation("none")
  /\ admin_roles = {}
  /\ channel = "none"
  /\ guild = NoGuild
  /\ invited = {}
  /\ members = {}
  /\ subs = {}
  /\ log = << >>
  /\ probe = "none"
  /\ logins = << >>
  /\ login_out = "none"
  /\ calls = NoCalls

RetryNext == RetryAttempt /\ UNCHANGED <<svars, pvars>>

\* a call of with_rate_limit_retry with any parameters, outside a session
InitRetry == RetryInit /\ SessionIdle /\ PureIdle

SpecRetry == InitRetry /\ [][RetryNext]_vars


(***************************************************************************)
(* InvitationManager.send_friend_request on its own, called with any       *)
(* InvitationConfig the dataclass admits.                                  *)
(***************************************************************************)
\* config.InvitationConfig: each of user_id, username and discriminator is
\* None or set
InvitationConfigs ==
  [user_id : {NoValue, TargetId}, username : {NoValue, TargetName},
   discriminator : {NoValue, TargetDiscriminator}]

\* which form of utils.parse_target_user an InvitationConfig has, if any
FormOf(i) ==
  IF i.user_id # NoValue /\ i.username = NoValue /\ i.discriminator = NoValue
  THEN "id"
  ELSE IF i.user_id = NoValue /\ i.username # NoValue /\ i.discriminator # NoValue
       THEN "name"
       ELSE "other"

\* the task of a logged-in client is about to call send_friend_request
\* (discord_client.py lines 66-70)
FriendInit ==
  /\ inv \in InvitationConfigs
  /\ cfg \in [nservers : Servers, invitation : {FormOf(inv)},
              grant_admin : BOOLEAN, webhook : {"none", "on"}]
  /\ token = <<"a", "b">>
  /\ e_pc = "connect"
  /\ e_raise = "None"
  /\ e_out = "none"
  /\ e_err = "None"
  /\ t_pc = "wait_ready"
  /\ cur = 0
  /\ attempt = 0
  /\ inner = 0
  /\ data = "none"
  /\ member = NoMember
  /\ results = << >>
  /\ exception = "None"
  /\ closed = FALSE
  /\ ready = TRUE
  /\ wh = "none"
  /\ admin_roles = {}
  /\ channel = "none"
  /\ guild = NoGuild
  /\ invited = {}
  /\ members = {}
  /\ subs = {}
  /\ log = << >>
  /\ probe = "none"
  /\ logins = <<token>>
  /\ login_out = "ok"
  /\ calls = NoCalls

FriendNext ==
  \/ WaitUntilReady
  \/ SendFriendRequest
  \/ FriendResponse
  \/ FriendFetchUser

InitFriend == FriendInit /\ RetryIdle /\ PureIdle

SpecFriend == InitFriend /\ [][FriendNext]_vars

(***************************************************************************)
(* The pure functions of the input stage, each called on its own:          *)
(* _normalize_token, sanitize_server_name, build_server_requests and       *)
(* parse_target_user.                                                      *)
(***************************************************************************)
\* longest run of free characters in a raw credential
MaxTokenLen == 3
\* longest run of free characters at the end of a server name
MaxTailLen == 3
\* longest target-user identifier
MaxIdentLen == 6
\* how many times in a row a function is applied to its own result
MaxApplications == 2

\* a call returned v, or raised e
Returned(v) == [err |-> "None", value |-> v]
Raised(e) == [err |-> e]

\* the characters raw credentials are made of
TokenChars == {"SP", "NL", "CR", "SQ", "DQ", "ZW", "a", "B", "o", "t"}
BotPrefixes == {<< >>, <<"B", "o", "t", "SP">>, <<"b", "O", "T", "SP">>}
ExampleToken ==
  <<"SP", "SP", "SQ", "B", "o", "t", "SP", "a", "b", "c", "NL",
    "1", "2", "3", "SQ", "SP", "SP">>
TokenInputs ==
  {pre \o t : pre \in BotPrefixes, t \in Seqs(TokenChars, MaxTokenLen)}
  \cup {ExampleToken}

\* utils.py line 15: [^\w\s-] matches what is neither a word character,
\* nor whitespace, nor the hyphen
WordChars == {"a", "_"}
Allowed(c) == c \in WordChars \cup Whitespace \cup {"-"}

\* utils.py line 22: cleaned[:95]
MaxNameLength == 95

\* the slice s[:n]
Truncate(s, n) == IF Len(s) > n THEN SubSeq(s, 1, n) ELSE s

\* the name is not cut to the length bound
SanitizeNeverCuts(name) ==
  LET cleaned == StripSet(SelectSeq(name, Allowed), Whitespace)
  IN  IF cleaned = << >> THEN Raised("ConfigurationError") ELSE Returned(cleaned)

\* utils.sanitize_server_name
SanitizeServerName(name) ==
  LET cleaned == StripSet(SelectSeq(name, Allowed), Whitespace)
  IN  IF cleaned = << >> THEN Raised("ConfigurationError")
      ELSE Returned(Truncate(cleaned, MaxNameLength))

\* names around the length bound: a run of word characters, then free
\* characters
NameChars == {"a", "SP", "-", "!"}
Pad(n) == [i \in 1..n |-> "a"]
PadLens == {0} \cup ((MaxNameLength - MaxTailLen)..MaxNameLength)
NameInputs == {Pad(n) \o t : n \in PadLens, t \in Seqs(NameChars, MaxTailLen)}

\* utils.build_server_requests: the first name that cannot be sanitized
\* ends the loop with its error; an empty list is rejected after the loop
BuildServerRequests(raw_names) ==
  LET cleaned == [i \in 1..Len(raw_names) |-> SanitizeServerName(raw_names[i])]
  IN  IF \E i \in 1..Len(raw_names) : cleaned[i].err # "None"
      THEN Raised("ConfigurationError")
      ELSE IF raw_names = << >>
           THEN Raised("ConfigurationError")
           ELSE Returned([i \in 1..Len(raw_names) |-> [name |-> cleaned[i].value]])

\* the lists of raw names build_server_requests is called with
RawNames == Seqs(NameChars, 2)
NameLists == Seqs(RawNames, MaxServers)

\* \d and int() on decimal digits
Digits == {"0", "1", "2", "3", "4", "5", "6", "7", "8", "9"}
DigitValue(c) ==
  CASE c = "0" -> 0 [] c = "1" -> 1 [] c = "2" -> 2 [] c = "3" -> 3
    [] c = "4" -> 4 [] c = "5" -> 5 [] c = "6" -> 6 [] c = "7" -> 7
    [] c = "8" -> 8 [] OTHER -> 9

AllDigits(s) == \A i \in 1..Len(s) : s[i] \in Digits

RECURSIVE IntOf(_)
IntOf(s) ==
  IF s = << >> THEN 0
  ELSE 10 * IntOf(SubSeq(s, 1, Len(s) - 1)) + DigitValue(s[Len(s)])

\* str.partition("#"): where the first "#" is
FirstHash(s) == CHOOSE i \in 1..Len(s) : s[i] = "#" /\ \A j \in 1..(i - 1) : s[j] # "#"

\* InvitationConfig (config.py lines 24-31); a field that is None is NoValue
\* and a populated user_id is the one-element sequence of its number
Invitation(raw, id, name, disc) ==
  [raw_identifier |-> raw, user_id |-> id, username |-> name,
   discriminator |-> disc, grant_admin |-> TRUE]

\* any run of digits is taken as an identifier
ParseAnyDigits(identifier) ==
  LET id == StripSet(identifier, Whitespace) IN
  IF id = << >> THEN Raised("ConfigurationError")
  ELSE IF AllDigits(id)
       THEN Returned(Invitation(id, <<IntOf(id)>>, NoValue, NoValue))
       ELSE Raised("ConfigurationError")

\* utils.parse_target_user
ParseTargetUser(identifier) ==
  LET id == StripSet(identifier, Whitespace) IN
  IF id = << >> THEN Raised("ConfigurationError")
  ELSE IF Len(id) >= 5 /\ AllDigits(id)
       THEN Returned(Invitation(id, <<IntOf(id)>>, NoValue, NoValue))
       ELSE IF \E i \in 1..Len(id) : id[i] = "#"
            THEN LET h == FirstHash(id)
                     username == SubSeq(id, 1, h - 1)
                     discriminator == SubSeq(id, h + 1, Len(id))
                 IN  IF \/ username = << >>
                        \/ discriminator = << >>
                        \/ ~(Len(discriminator) = 4 /\ AllDigits(discriminator))
                     THEN Raised("ConfigurationError")
                     ELSE Returned(Invitation(id, NoValue, username, discriminator))
            ELSE Raised("ConfigurationError")

\* the identifiers parse_target_user is called with
IdentChars == {"0", "1", "#", "a", "SP"}
IdentInputs == Seqs(IdentChars, MaxIdentLen)

PureInit ==
  /\ fn \in {"normalize", "sanitize", "build", "parse"}
  /\ arg \in CASE fn = "normalize" -> TokenInputs
               [] fn = "sanitize" -> NameInputs
               [] fn = "build" -> NameLists
               [] OTHER -> IdentInputs
  /\ ret = << >>

\* _normalize_token on the raw credential, then on its own result
NormalizeCall ==
  /\ fn = "normalize"
  /\ Len(ret) < MaxApplications
  /\ ret' = Append(ret, Returned(NormalizeToken(IF ret = << >> THEN arg
                                                ELSE ret[Len(ret)].value)))
  /\ UNCHANGED <<fn, arg, svars, rvars>>

\* sanitize_server_name on the raw name, then on its own result
SanitizeCall ==
  /\ fn = "sanitize"
  /\ Len(ret) < MaxApplications
  /\ IF ret = << >> THEN TRUE ELSE ret[Len(ret)].err = "None"
  /\ ret' = Append(ret, SanitizeServerName(IF ret = << >> THEN arg
                                           ELSE ret[Len(ret)].value))
  /\ UNCHANGED <<fn, arg, svars, rvars>>

BuildCall ==
  /\ fn = "build"
  /\ ret = << >>
  /\ ret' = <<BuildServerRequests(arg)>>
  /\ UNCHANGED <<fn, arg, svars, rvars>>

ParseCall ==
  /\ fn = "parse"
  /\ ret = << >>
  /\ ret' = <<ParseTargetUser(arg)>>
  /\ UNCHANGED <<fn, arg, svars, rvars>>

PureNext ==
  \/ NormalizeCall
  \/ SanitizeCall
  \/ BuildCall
  \/ ParseCall

InitPure == PureInit /\ SessionIdle /\ RetryIdle

SpecPure == InitPure /\ [][PureNext]_vars

(***************************************************************************)
(* Properties of the Retry Executor (SpecRetry).                           *)
(***************************************************************************)
RECURSIVE Pow(_, _)
Pow(b, n) == IF n = 0 THEN 1 ELSE b * Pow(b, n - 1)

\* how many invocations failed with 429 before the first other outcome
RECURSIVE LeadingRateLimits(_)
LeadingRateLimits(outs) ==
  IF outs = << >> \/ Head(outs) # "HTTP429" THEN 0
  ELSE 1 + LeadingRateLimits(Tail(outs))

Min(a, b) == IF a <= b THEN a ELSE b

\* C1: an operation that fails with 429 exactly k times and then succeeds:
\* for k < retries the call returns the operation's result after k + 1
\* invocations and k sleeps of base, base*factor, base*factor^2, ...; for
\* k >= retries the operation is invoked retries times, with retries - 1
\* sleeps and none after the final attempt.
C1_RetrySchedule ==
  LET k == LeadingRateLimits(r_outs) IN
  /\ r_calls = Len(r_outs)
  /\ r_calls <= rp.retries
  /\ \A i \in 1..Len(r_sleeps) :
       r_sleeps[i] = rp.base_delay * Pow(rp.backoff_factor, i - 1)
  /\ (Len(r_outs) = k) => Len(r_sleeps) = Min(k, rp.retries - 1)
  /\ (Len(r_outs) = k + 1 /\ r_outs[k + 1] \in OpResults) =>
       /\ k < rp.retries
       /\ r_state = "returned"
       /\ r_result = r_outs[k + 1]
       /\ r_calls = k + 1
       /\ Len(r_sleeps) = k
  /\ (k >= rp.retries) =>
       /\ r_state = "raised"
       /\ r_calls = rp.retries
       /\ Len(r_sleeps) = rp.retries - 1

C1_Witness ==
  /\ rp = [retries |-> 5, base_delay |-> 2, backoff_factor |-> 2]
  /\ r_state = "returned"
  /\ r_outs = <<"HTTP429", "HTTP429", "HTTP429", "r1">>
  /\ r_sleeps = <<2, 4, 8>>

\* C2: when the operation is still rate-limited on the last permitted
\* attempt, the call fails with RateLimitError.
C2_ExhaustionRaisesRateLimitError ==
  (/\ r_state = "raised"
   /\ Len(r_outs) = rp.retries
   /\ r_outs[Len(r_outs)] = "HTTP429") => r_result = "RateLimitError"

\* C3: a failure that is not a rate-limit response is raised unchanged at
\* once: it is the last invocation, and no sleep follows it.
C3_OtherFailurePropagates ==
  \A i \in 1..Len(r_outs) :
    (r_outs[i] \notin OpResults /\ r_outs[i] # "HTTP429") =>
      /\ i = Len(r_outs)
      /\ r_state = "raised"
      /\ r_result = r_outs[i]
      /\ r_calls = i
      /\ Len(r_sleeps) = i - 1

C3_Witness ==
  /\ r_state = "raised"
  /\ r_outs = <<"HTTP429", "HTTP429", "HTTP500">>
  /\ r_result = "HTTP500"
  /\ Len(r_sleeps) = 2


(***************************************************************************)
(* Properties of a session (Spec).                                         *)
(***************************************************************************)
\* the task has recorded an error (line 85)
StageFailed == exception # "None"

\* _authenticate raised
AuthFailed == e_raise \notin {"None", "GatewayError"}

\* C4: when a stage of the session ends in an unrecovered error, no
\* further server is processed (no result and no remote call is added),
\* the error is the one recorded error of the run and stays so, and when
\* execute raises, the client is closed and the webhook notifier holds no
\* open session; without a failure of connect itself the error execute
\* raises is the recorded one.  An authentication failure leaves the task
\* unstarted.
C4_SessionFailureHandling ==
  /\ [](StageFailed => t_pc \in {"closing", "done", "cancelled"})
  /\ [][StageFailed =>
          exception' = exception /\ results' = results /\ log' = log]_vars
  /\ [](AuthFailed => t_pc = "none" /\ log = << >> /\ results = << >>)
  /\ [](e_out = "raised" => closed /\ wh # "open" /\ e_err # "None")
  /\ [](e_out = "raised" /\ e_raise = "None" => e_err = exception)
  /\ [](e_out = "raised" /\ e_raise # "None" => e_err = e_raise)
  /\ [](e_pc = "done" /\ (StageFailed \/ e_raise # "None") => e_out = "raised")

\* the second server's pipeline failed after the first server was done, and
\* execute has raised
C4_Witness ==
  /\ e_out = "raised"
  /\ e_err = exception
  /\ exception = "DiscordOperationError(500)"
  /\ Len(results) = 1
  /\ HasEntry(log, "create_invite", 2)
  /\ closed
  /\ wh = "closed"

\* the pcs at which the task is inside _provision_server
PipelinePcs ==
  {"create_guild", "fetch_guild", "create_text_channel", "create_invite",
   "create_role", "fetch_user", "create_dm", "send", "wait_join", "add_roles"}

\* C5: the results are those of the first Len(results) requests, in order;
\* every call of server s is first issued when exactly the servers before
\* s have their results, the task is inside the pipeline of server cur
\* only while exactly cur - 1 results exist, and the log never returns to
\* an earlier server.
C5_SequentialInOrder ==
  /\ Len(results) <= cfg.nservers
  /\ \A i \in 1..Len(results) : results[i] = Result(i)
  /\ \A k \in 1..Len(log) :
       log[k].srv >= 1 =>
         log[k].done = IF log[k].op = "notify" THEN log[k].srv ELSE log[k].srv - 1
  /\ \A k \in 1..(Len(log) - 1) : log[k].srv <= log[k + 1].srv
  /\ t_pc \in PipelinePcs => cur >= 1 /\ Len(results) = cur - 1

\* the first server's join-wait was entered and the second server's DM
\* was sent
C5_Witness ==
  /\ Len(results) = 2
  /\ HasEntry(log, "wait_for", 1)
  /\ HasEntry(log, "send", 2)
\* the step of _provision_server a logged call or event belongs to: guild
\* creation, channel creation, invite creation, role creation, DM
\* delivery, join-wait (with the role grant that ends it)
StepOf(op) ==
  CASE op \in {"create_guild", "fetch_guild"} -> 1
    [] op = "create_text_channel" -> 2
    [] op = "create_invite" -> 3
    [] op = "create_role" -> 4
    [] op \in {"fetch_user", "create_dm", "send"} -> 5
    [] op \in {"get_member:found", "get_member:none", "wait_for", "timeout",
               "add_roles"} -> 6
    [] OTHER -> 7

\* the call op of server s has been issued and its latest outcome is success
Succeeded(op, s) ==
  \E i \in 1..Len(log) : log[i].op = op /\ log[i].srv = s /\ log[i].ok

\* the calls that must have succeeded before a call of step n of server s
Earlier(n) ==
  (IF n > 1 THEN {"create_guild", "fetch_guild"} ELSE {})
  \cup (IF n > 3 THEN {"create_invite"} ELSE {})
  \cup (IF n > 4 /\ cfg.grant_admin THEN {"create_role"} ELSE {})
  \cup (IF n > 5 THEN {"fetch_user", "create_dm", "send"} ELSE {})

\* what a recorded result of server s rests on
Pipeline ==
  {"create_guild", "fetch_guild", "create_invite"}
  \cup (IF cfg.invitation # "none" /\ cfg.grant_admin THEN {"create_role"} ELSE {})
  \cup (IF cfg.invitation # "none" THEN {"fetch_user", "create_dm", "send"} ELSE {})

\* the log entries of server s
EntriesOf(s) == SelectSeq(log, LAMBDA e : e.srv = s)

\* C6: the calls of one server are first issued in the order guild,
\* channel, invite, role, DM, join-wait (each entry's step is at most the
\* next entry's); a call that failed is followed by no call of a later
\* step and its server has no result; every call comes with the earlier
\* steps that apply issued and succeeded, and so does a result; the invite
\* is created on a selected or created channel and the join-wait is
\* entered with the invite created and the role registered.
C6_PipelineOrder ==
  [](
      /\ \A s \in Servers :
         \A es \in {EntriesOf(s)} :
         \A okops \in {{es[k].op : k \in {i \in 1..Len(es) : es[i].ok}}} :
           /\ \A k \in 1..(Len(es) - 1) : StepOf(es[k].op) <= StepOf(es[k + 1].op)
           /\ \A k \in 1..Len(es) :
                ~es[k].ok =>
                  /\ StepOf(es[Len(es)].op) = StepOf(es[k].op)
                  /\ StepOf(es[k].op) <= 6 => Len(results) < s
           /\ \A n \in {StepOf(es[l].op) : l \in 1..Len(es)} :
                n <= 6 => Earlier(n) \subseteq okops
           /\ s <= Len(results) => Pipeline \subseteq okops
      /\ t_pc = "create_invite" => channel # "none"
      /\ t_pc \in {"wait_join", "add_roles"} => cur \in admin_roles /\ cur \in invited)

\* a server went through every step up to the role grant; the next
\* server's channel creation failed, so it has neither invite nor result
C6_Witness ==
  /\ Succeeded("add_roles", 1)
  /\ Succeeded("create_text_channel", 1)
  /\ HasEntry(log, "create_text_channel", 2)
  /\ ~Succeeded("create_text_channel", 2)
  /\ t_pc = "done"
  /\ exception = "HTTP500"
  /\ Len(results) = 1

\* the join-wait of server s ended by timeout
TimedOut(s) == HasEntry(log, "timeout", s)

\* C7: when the join-wait of a server times out, the step that takes the
\* timeout appends the server's result, records no error and goes on to
\* the notification or the next server; from then on the server has its
\* result, no role grant was ever issued for it and its role stays
\* registered.
C7_JoinTimeoutIsSoft ==
  /\ [](\A s \in Servers :
          TimedOut(s) =>
            /\ cfg.grant_admin
            /\ Len(results) >= s
            /\ results[s] = Result(s)
            /\ ~HasEntry(log, "add_roles", s)
            /\ s \in admin_roles
            /\ exception # "TimeoutError")
  /\ [][t_pc = "wait_join" /\ ~HasEntry(log, "timeout", cur)
          /\ HasEntry(log', "timeout", cur) =>
          /\ results' = Append(results, Result(cur))
          /\ exception' = "None"
          /\ IF cfg.webhook # "none" THEN t_pc' = "notify" /\ cur' = cur
             ELSE IF cur < cfg.nservers
                  THEN t_pc' = "create_guild" /\ cur' = cur + 1
                  ELSE t_pc' = "closing"]_vars

\* the first server's join-wait timed out and the second server was
\* provisioned after it
C7_Witness ==
  /\ TimedOut(1)
  /\ Len(results) = 2
  /\ 1 \in admin_roles
  /\ exception = "None"

\* C8: one server request and auto-grant, the target found as a member:
\* no wait_for is ever registered, at most one result, one role grant
\* unless the grant was rate limited and retried; a recorded result comes
\* with exactly one successful grant, and the task that reaches line 83
\* has recorded the result.
C8_AlreadyMemberFastPath ==
  (cfg.nservers = 1 /\ cfg.grant_admin /\ HasEntry(log, "get_member:found", 1)) =>
    /\ ~HasEntry(log, "wait_for", 1)
    /\ subs = {}
    /\ Len(results) <= 1
    /\ (calls["add_roles"].limited = 0 => calls["add_roles"].issued <= 1)
    /\ (Len(results) = 1 =>
          /\ calls["add_roles"].ok = 1
          /\ (calls["add_roles"].limited = 0 => calls["add_roles"].issued = 1))
    /\ (t_pc = "closing" /\ exception = "None" => Len(results) = 1)

\* the fast path was taken and the run completed
C8_Witness ==
  /\ cfg.nservers = 1
  /\ cfg.grant_admin
  /\ HasEntry(log, "get_member:found", 1)
  /\ t_pc = "done"
  /\ exception = "None"
  /\ Len(results) = 1
  /\ calls["add_roles"].issued = 1
  /\ e_out = "returned"

\* C9: a member_join subscription exists only for the server being
\* provisioned and only while monitor_member_join is waiting; none is left
\* of a server whose wait ended by a join or by the timeout.
C9_NoSubscriptionLeak ==
  /\ \A s \in subs : s = cur /\ t_pc = "wait_join"
  /\ \A s \in Servers :
       (TimedOut(s) \/ HasEntry(log, "add_roles", s) \/ Len(results) >= s) =>
         s \notin subs

\* the second server is being provisioned after the first server's wait
\* timed out
C9_Witness ==
  /\ TimedOut(1)
  /\ cur = 2
  /\ t_pc = "wait_join"
  /\ subs = {2}

\* C10: a notification that fails for a server that is not the last one is
\* followed by the provisioning of the next server, as a notification that
\* succeeds is.
C10_NotificationFailureDoesNotStop ==
  [][(/\ t_pc = "notify"
      /\ cur < cfg.nservers
      /\ Len(log') = Len(log) + 1
      /\ log'[Len(log')].op = "notify"
      /\ ~log'[Len(log')].ok)
     => t_pc' = "create_guild" /\ cur' = cur + 1 /\ exception' = "None"]_vars
\* C11: a remote HTTP failure of a provisioning call never reaches execute
\* as the raw HTTPException: the error the task records, and the error
\* execute raises, is a typed one.
C11_RemoteFailuresAreTyped ==
  /\ ~IsHTTPException(exception)
  /\ ~IsHTTPException(e_err)
\* C12: the identity probe never gates behaviour.  Whatever outcome the
\* probe is handling, the step that returns from it leads to one and the
\* same state: login comes next, with the credential, the pending error
\* and everything else as they were, and nothing of the outcome is kept.
\* login is called with the normalized credential the probe was given, at
\* most once, and exactly once in every session whose credential was not
\* empty.
C12_ProbeNeverGates ==
  /\ [][e_pc = "probe_done" =>
          /\ e_pc' = "login"
          /\ probe' = "none"
          /\ UNCHANGED <<logins, login_out, cfg, token, e_raise, e_out, e_err,
                         closed, ready, wh, taskvars, othervars>>]_vars
  /\ [](probe # "none" => e_pc = "probe_done" /\ token # << >> /\ logins = << >>)
  /\ [][logins' # logins => e_pc = "login" /\ logins' = <<token>>]_vars
  /\ [](e_pc \in {"probe", "probe_done", "login"} => logins = << >>)
  /\ [](e_pc = "connect" => logins = <<token>>)
  /\ [](e_pc = "done" /\ e_err # "AuthenticationError(empty)" => logins = <<token>>)

\* the probe failed with an unexpected exception and is about to return
C12_Witness ==
  /\ e_pc = "probe_done"
  /\ probe = "other_error"
  /\ token = <<"a", "b">>
\* the errors of the class AuthenticationError
AuthenticationErrors ==
  {"AuthenticationError(empty)", "AuthenticationError(rejected)",
   "AuthenticationError(denied)", "AuthenticationError(rate limited)",
   "AuthenticationError(HTTP 500)"}

\* C18: every failure of the authentication stage is an
\* AuthenticationError and the session stops before any guild,
\* relationship or notification call: the task is never created.  A
\* credential that is empty once normalized is rejected with neither probe
\* nor login attempted; a login failure is mapped by its kind: invalid
\* credential or 401 to 'rejected', 403 to 'denied', 429 to the rate-limit
\* message, another status to the message with the status; execute raises
\* that error.
C18_AuthFailuresAreTyped ==
  /\ [](AuthFailed =>
          /\ e_raise \in AuthenticationErrors
          /\ t_pc = "none"
          /\ log = << >>
          /\ results = << >>
          /\ wh = "none")
  /\ [][e_pc = "authenticate" /\ NormalizeToken(token) = << >> =>
          e_pc' = "close_client" /\ e_raise' = "AuthenticationError(empty)"]_vars
  /\ [](e_raise = "AuthenticationError(empty)" =>
          login_out = "none" /\ logins = << >> /\ probe = "none"
          /\ e_pc \in {"close_client", "close_webhook", "done"})
  /\ [](login_out \in {"LoginFailure", "HTTP401"} =>
          e_raise = "AuthenticationError(rejected)")
  /\ [](login_out = "HTTP403" => e_raise = "AuthenticationError(denied)")
  /\ [](login_out = "HTTP429" => e_raise = "AuthenticationError(rate limited)")
  /\ [](login_out = "HTTP500" => e_raise = "AuthenticationError(HTTP 500)")
  /\ [](login_out \notin {"none", "ok"} => AuthFailed)
  /\ [](AuthFailed /\ e_pc = "done" => e_out = "raised" /\ e_err = e_raise)

\* the fetched guild has no system channel and no text channel whose
\* permissions allow creating an invite
NeedsChannel == ~guild.system /\ \A i \in 1..Len(guild.text) : ~guild.text[i]

\* C19: the invite is created on the system channel when the guild has
\* one; otherwise on the first text channel whose permissions allow
\* creating an invite; the channel 'general' is created exactly when there
\* is neither, through with_rate_limit_retry, before the invite is
\* created, and the invite is then created on it.
C19_ChannelSelection ==
  /\ [](t_pc = "create_invite" =>
          /\ guild.system => channel = "system"
          /\ ~guild.system =>
               \A i \in 1..Len(guild.text) :
                 (guild.text[i] /\ \A j \in 1..(i - 1) : ~guild.text[j]) =>
                   channel = TextChannelNames[i]
          /\ NeedsChannel <=> channel = "general"
          /\ NeedsChannel <=> HasEntry(log, "create_text_channel", cur)
          /\ NeedsChannel => Succeeded("create_text_channel", cur))
  /\ [](t_pc = "create_text_channel" =>
          /\ NeedsChannel
          /\ channel = "none"
          /\ attempt < DefaultRetries
          /\ ~HasEntry(log, "create_invite", cur))
  /\ [][t_pc = "create_text_channel" /\ t_pc' # t_pc =>
          \/ t_pc' = "create_invite" /\ channel' = "general" /\ guild' = guild
          \/ t_pc' \in {"closing", "cancelled"}]_vars
  /\ [][~HasEntry(log, "create_invite", cur) /\ HasEntry(log', "create_invite", cur) =>
          t_pc = "create_invite" /\ channel # "none"]_vars
  /\ [][t_pc = "create_invite" /\ t_pc' = "create_invite" =>
          channel' = channel /\ guild' = guild]_vars

\* the first server got the new channel; the second server has no system
\* channel and its second text channel is the first to allow invites
C19_Witness ==
  /\ cur = 2
  /\ t_pc = "create_invite"
  /\ guild = [system |-> FALSE, text |-> <<FALSE, TRUE>>]
  /\ channel = "text2"
  /\ Succeeded("create_text_channel", 1)
  /\ Succeeded("create_invite", 1)
  /\ Len(results) = 1

\* the calls of the invitation policy and the notification
PolicyOps ==
  {"relationship", "create_role", "fetch_user", "create_dm", "send",
   "get_member:found", "get_member:none", "wait_for", "timeout", "add_roles",
   "notify"}

\* C20: in a session without invitation policy and without webhook no
\* relationship request, role creation, DM, role grant or notification is
\* ever issued; when the task has run to its end with no error recorded
\* (every remote call succeeded), there is exactly one result per server
\* request, in request order, each holding the invite link of an invite
\* that was created, and these are the results execute returns.
C20_PlainSession ==
  (cfg.invitation = "none" /\ cfg.webhook = "none") =>
    /\ \A k \in 1..Len(log) : log[k].op \notin PolicyOps
    /\ calls["relationship"].issued = 0
    /\ calls["add_roles"].issued = 0
    /\ admin_roles = {}
    /\ subs = {}
    /\ wh = "none"
    /\ (t_pc \in {"closing", "done"} /\ exception = "None") =>
         /\ Len(results) = cfg.nservers
         /\ \A i \in 1..Len(results) :
              /\ results[i].req = i
              /\ results[i].invite_url # NoValue
              /\ results[i].invite_url = InviteUrl(i)
              /\ i \in invited
              /\ Succeeded("create_guild", i)
              /\ Succeeded("create_invite", i)
    /\ (e_out = "returned" /\ t_pc = "done") =>
         Len(results) = cfg.nservers /\ exception = "None"

\* two servers were provisioned with every call succeeding, and execute
\* returned
C20_Witness ==
  /\ cfg = [nservers |-> 2, invitation |-> "none", grant_admin |-> TRUE,
            webhook |-> "none"]
  /\ e_out = "returned"
  /\ t_pc = "done"
  /\ Len(results) = 2
  /\ Len(log) = 6
  /\ \A k \in 1..Len(log) : log[k].ok
  /\ exception = "None"

\* send_friend_request has returned normally: the task goes from the
\* relationship request, or from the fetch that follows it, to the first
\* server
FriendRequestSucceeds ==
  /\ t_pc \in {"friend_response", "friend_fetch_user"}
  /\ t_pc' = "create_guild"

\* C21: when send_friend_request succeeds the target is fully resolved:
\* the numeric identifier and the display name are both known afterwards,
\* whichever form the request was sent in and whatever the response held.
C21_SuccessResolvesTarget ==
  [][FriendRequestSucceeds
     => inv'.user_id # NoValue /\ inv'.username # NoValue]_vars

\* create_invite_and_dm issues its first request for the server at hand
DmDeliveryStarts == t_pc # "fetch_user" /\ t_pc' = "fetch_user"

\* C22: with an invitation configured, the elevated role of a server has
\* been created when the DM delivery for that server starts, whether or not
\* auto-grant is enabled; the task waits for a join only with auto-grant.
C22_RoleBeforeDm ==
  /\ [][DmDeliveryStarts
        => \E i \in 1..Len(log') :
             /\ log'[i].op = "create_role"
             /\ log'[i].srv = cur'
             /\ log'[i].ok]_vars
  /\ [](t_pc = "wait_join" => cfg.grant_admin)

\* the errors WebhookNotifier.notify ends in
NotifyErrors == {NotifyError(out) : out \in NotifyOutcomes \ {"ok"}}

\* the step dispatches the notification of server cur
Notifies ==
  /\ Len(log') = Len(log) + 1
  /\ log'[Len(log')].op = "notify"

\* C24: with a webhook configured, the notification of a server is
\* dispatched only when that server's result is the last one of the result
\* list, and no remote call of the next server is issued before it; no
\* server is notified twice; and a notification that fails becomes the
\* recorded error of the session, the result of its server staying in the
\* list.
C24_NotificationOrdering ==
  /\ [][Notifies
        => /\ cfg.webhook = "on"
           /\ log'[Len(log')].srv = cur
           /\ ~HasEntry(log, "notify", cur)
           /\ Len(results) = cur
           /\ results[cur] = Result(cur)
           /\ results' = results]_vars
  /\ [][(/\ cfg.webhook = "on"
         /\ Len(log') = Len(log) + 1
         /\ log'[Len(log')].srv >= 2
         /\ ~\E i \in 1..Len(log) : log[i].srv = log'[Len(log')].srv)
        => log[Len(log)] = [op |-> "notify", srv |-> log'[Len(log')].srv - 1,
                            done |-> log'[Len(log')].srv - 1, ok |-> TRUE]]_vars
  /\ [][Notifies /\ ~log'[Len(log')].ok
        => /\ exception = "None"
           /\ exception' \in NotifyErrors
           /\ t_pc' = "closing"]_vars
  /\ [][(exception \in NotifyErrors)
        => /\ log' = log
           /\ results' = results
           /\ exception' = exception]_vars
  /\ [](exception \in NotifyErrors
        => /\ log[Len(log)].op = "notify"
           /\ ~log[Len(log)].ok
           /\ Len(results) = log[Len(log)].srv
           /\ (e_out = "raised" /\ e_raise = "None" => e_err = exception)
           /\ e_out # "returned")
  /\ [](\A i \in 1..Len(log) :
          log[i].op = "notify" /\ ~log[i].ok => exception \in NotifyErrors)

\* the notification of the first of two servers failed; its result is the
\* only one and execute has raised the notification's error
C24_Witness ==
  /\ cfg.nservers = 2
  /\ cfg.webhook = "on"
  /\ Len(results) = 1
  /\ results[1] = Result(1)
  /\ log[Len(log)] = [op |-> "notify", srv |-> 1, done |-> 1, ok |-> FALSE]
  /\ exception = "DiscordOperationError(webhook status)"
  /\ e_out = "raised"
  /\ e_err = exception

\* the task leaves the join-wait, other than by being cancelled
JoinWaitEnds == t_pc = "wait_join" /\ t_pc' \notin {"wait_join", "cancelled"}

\* C25: every session terminates with the teardown done, when every request
\* is answered and the gateway becomes ready or fails: execute ends with the
\* client closed and no webhook session open.  No with_rate_limit_retry call
\* makes more than `retries` attempts, and a join-wait ends by the join of
\* the target or by its timeout.
C25_Termination ==
  /\ <>(e_pc = "done")
  /\ [](e_pc = "done" => closed /\ wh # "open" /\ t_pc \in {"none", "done", "cancelled"})
  /\ [](attempt < DefaultRetries /\ inner < DefaultRetries)
  /\ [][JoinWaitEnds
        => \/ Len(log') = Len(log) + 1 /\ log'[Len(log')].op = "timeout"
           \/ cur \in members' /\ cur \notin members]_vars

\* a session of two servers has ended normally after rate-limited calls
\* and a join-wait that timed out
C25_Witness ==
  /\ e_pc = "done"
  /\ e_out = "returned"
  /\ t_pc = "done"
  /\ cfg.nservers = 2
  /\ Len(results) = 2
  /\ \E i \in 1..Len(log) : log[i].op = "timeout"
  /\ closed

\* C26: for one server request at most one guild-creation request
\* succeeds, whatever with_rate_limit_retry retries.
C26_AtMostOneGuild == calls["create_guild"].ok <= 1

\* C27: within one send_friend_request call the relationship request is
\* not issued again once it has succeeded.
C27_RelationshipSentOnce ==
  [][calls["relationship"].ok >= 1
     => calls'["relationship"].issued <= calls["relationship"].issued]_vars

\* C28: execute returns normally only when the provisioning task has run
\* to its end with one result per requested server.
C28_ReturnOnlyWhenComplete ==
  e_out = "returned" => t_pc = "done" /\ Len(results) = cfg.nservers

\* the target becomes a member of the server being provisioned
TargetJoins == cur \notin members /\ cur \in members'

\* C29: with auto-grant no join of the target is lost.  The task never
\* waits for a join that has already happened; a join during the wait ends
\* the wait and leads to the role grant; a join before the membership
\* check leads to the grant without a wait; and a server that has its
\* result while the target is a member of it got the grant, unless the
\* join came after the wait had timed out.
C29_NoLostJoin ==
  /\ [](t_pc = "wait_join" => cfg.grant_admin /\ cur \in subs /\ cur \notin members)
  /\ [][t_pc = "wait_join" /\ TargetJoins
        => t_pc' = "add_roles" /\ cur' = cur]_vars
  /\ [][(/\ t_pc = "send"
         /\ cfg.grant_admin
         /\ cur \in members
         /\ t_pc' \notin {"send", "closing", "cancelled"})
        => t_pc' = "add_roles" /\ subs' = subs]_vars
  /\ [](\A s \in members :
          cfg.grant_admin /\ Len(results) >= s
          => \/ \E i \in 1..Len(log) :
                  log[i].op = "add_roles" /\ log[i].srv = s /\ log[i].ok
             \/ TimedOut(s))

\* the target joined the first server while the task was waiting for it,
\* and was granted the role
C29_Witness ==
  /\ cfg.grant_admin
  /\ HasEntry(log, "wait_for", 1)
  /\ ~TimedOut(1)
  /\ 1 \in members
  /\ Len(results) >= 1
  /\ \E i \in 1..Len(log) :
       log[i].op = "add_roles" /\ log[i].srv = 1 /\ log[i].ok

\* C30: the elevated role is granted only to the configured target.  A
\* role grant is only ever called, with auto-grant enabled, for a member
\* whose id is the resolved id of the target, in the server being
\* provisioned, for which a role is registered and which the target has
\* joined; the join-wait is left for the grant only by the join of the
\* target in that server; and no server sees a second grant after one has
\* succeeded.
C30_GrantOnlyToTarget ==
  /\ [](t_pc = "add_roles"
        => /\ cfg.grant_admin
           /\ inv.user_id # NoValue
           /\ member.id = inv.user_id
           /\ member.guild = cur
           /\ cur \in admin_roles
           /\ cur \in members
           /\ ~\E i \in 1..Len(log) :
                 log[i].op = "add_roles" /\ log[i].srv = cur /\ log[i].ok)
  /\ [](t_pc # "add_roles" => member = NoMember)
  /\ [][t_pc = "wait_join" /\ t_pc' = "add_roles" => TargetJoins]_vars
  /\ [](\A i \in 1..Len(log) :
          log[i].op = "add_roles"
          => cfg.grant_admin /\ log[i].srv \in admin_roles \cap members)
  /\ [](calls["add_roles"].ok <= 1)

\* while the task waited for the target in the second server, another user
\* joined it and the target joined later; the grant was made once
C30_Witness ==
  /\ cfg.nservers = 2
  /\ cfg.grant_admin
  /\ t_pc = "done"
  /\ members = {1, 2}
  /\ HasEntry(log, "wait_for", 2)
  /\ \A s \in {1, 2} :
       \E i \in 1..Len(log) :
         log[i].op = "add_roles" /\ log[i].srv = s /\ log[i].ok
  /\ calls["add_roles"].ok = 1

C13_NormalizeIdempotent ==
  (fn = "normalize" /\ Len(ret) >= 2) => ret[2].value = ret[1].value
\* C14: the normalized credential has no whitespace and no quote character
\* at either edge, no newline, carriage return or zero-width space
\* anywhere, and no leading 'Bot ' prefix in any letter case; the example
\* credential normalizes to abc123.
C14_NormalizePostcondition ==
  (fn = "normalize" /\ Len(ret) >= 1) =>
    LET n == ret[1].value IN
    /\ n # << >> =>
         /\ n[1] \notin Whitespace \cup QuoteChars
         /\ n[Len(n)] \notin Whitespace \cup QuoteChars
    /\ \A i \in 1..Len(n) : n[i] \notin {"NL", "CR", "ZW"}
    /\ ~StartsWithBot(n)
    /\ arg = ExampleToken => n = <<"a", "b", "c", "1", "2", "3">>
\* C15: sanitizing a sanitized server name gives the same name, also for
\* names longer than the length bound with whitespace at the cut.
C15_SanitizeIdempotent ==
  (fn = "sanitize" /\ Len(ret) >= 2) => ret[2] = ret[1]
\* C16: sanitize_server_name raises ConfigurationError exactly when
\* nothing but whitespace is left of the name once the disallowed
\* characters are removed; otherwise it returns a non-empty name of at
\* most 95 characters, each a word character, whitespace or the hyphen.
\* build_server_requests raises ConfigurationError for the empty list (and
\* for a list with a name that cannot be sanitized); otherwise it returns
\* one ServerRequest per raw name, in the order of the raw names, each
\* holding the sanitized name.
C16_SanitizeRange ==
  /\ (fn = "sanitize" /\ Len(ret) >= 1) =>
       LET r == ret[1]
           kept == SelectSeq(arg, LAMBDA c : c \in {"a", "_", "-"} \cup Whitespace)
       IN
       /\ r.err \in {"None", "ConfigurationError"}
       /\ r.err = "ConfigurationError" <=>
            \A i \in 1..Len(kept) : kept[i] \in Whitespace
       /\ r.err = "None" =>
            /\ r.value # << >>
            /\ Len(r.value) <= 95
            /\ \A i \in 1..Len(r.value) :
                 r.value[i] \in {"a", "_", "-"} \cup Whitespace
  /\ (fn = "build" /\ Len(ret) >= 1) =>
       LET r == ret[1] IN
       /\ r.err \in {"None", "ConfigurationError"}
       /\ arg = << >> => r.err = "ConfigurationError"
       /\ r.err = "ConfigurationError" <=>
            \/ arg = << >>
            \/ \E i \in 1..Len(arg) : SanitizeServerName(arg[i]).err # "None"
       /\ r.err = "None" =>
            /\ Len(r.value) = Len(arg)
            /\ \A i \in 1..Len(arg) :
                 Returned(r.value[i].name) = SanitizeServerName(arg[i])

\* a name longer than the bound, with a disallowed character, was cut to
\* the bound
C16_Witness ==
  /\ fn = "sanitize"
  /\ Len(arg) = MaxNameLength + 3
  /\ arg[MaxNameLength + 1] = "!"
  /\ Len(ret) >= 1
  /\ ret[1].err = "None"
  /\ Len(ret[1].value) = MaxNameLength

\* C17: parse_target_user on the trimmed identifier: at least five
\* characters, all digits, give a reference with the numeric identifier
\* (the number the digits denote) and neither name nor discriminator; a
\* non-empty name, the first '#' and exactly four digits give a reference
\* with name and discriminator and no numeric identifier; anything else
\* raises ConfigurationError.  So every reference returned has exactly one
\* of the two forms.
C17_TargetUserParsing ==
  (fn = "parse" /\ Len(ret) >= 1) =>
    LET r == ret[1]
        id == StripSet(arg, Whitespace)
        IsDigit(c) == c \in {"0", "1", "2", "3", "4", "5", "6", "7", "8", "9"}
        numeric == Len(id) >= 5 /\ \A i \in 1..Len(id) : IsDigit(id[i])
        named ==
          \E h \in 2..Len(id) :
            /\ id[h] = "#"
            /\ \A j \in 1..(h - 1) : id[j] # "#"
            /\ Len(id) = h + 4
            /\ \A j \in (h + 1)..Len(id) : IsDigit(id[j])
    IN
    /\ r.err \in {"None", "ConfigurationError"}
    /\ numeric =>
         /\ r.err = "None"
         /\ r.value.user_id = <<IntOf(id)>>
         /\ r.value.username = NoValue
         /\ r.value.discriminator = NoValue
    /\ named =>
         /\ r.err = "None"
         /\ r.value.user_id = NoValue
         /\ r.value.username = SubSeq(id, 1, Len(id) - 5)
         /\ r.value.discriminator = SubSeq(id, Len(id) - 3, Len(id))
    /\ ~numeric /\ ~named => r.err = "ConfigurationError"
    /\ r.err = "None" =>
         \/ /\ r.value.user_id # NoValue
            /\ r.value.username = NoValue
            /\ r.value.discriminator = NoValue
         \/ /\ r.value.user_id = NoValue
            /\ r.value.username # NoValue
            /\ r.value.discriminator # NoValue

\* an identifier with a leading space was parsed as a numeric identifier
C17_Witness ==
  /\ fn = "parse"
  /\ arg = <<"SP", "1", "0", "0", "0", "1">>
  /\ Len(ret) = 1
  /\ ret[1].err = "None"
  /\ ret[1].value.user_id = <<10001>>
====
